---------------------------- MODULE Spec2Model ----------------------------
(***************************************************************************)
(* The runtime-dependency installation pipeline of the C/C++ extension     *)
(* (main.ts: activate, processRuntimeDependencies, offlineInstallation,    *)
(* onlineInstallation, handleError, sendTelemetry, postInstall,            *)
(* finalizeExtensionActivation, rewriteManifest).                          *)
(*                                                                         *)
(* One behaviour is a sequence of extension sessions (activations) on one  *)
(* host over one extension directory: the disk (lock file, package.json,   *)
(* debug adapter files) persists from session to session, the module-level *)
(* variables and the InstallationInformation blob are fresh per session.   *)
(* Every await of the code is one step; an awaited download, extraction or *)
(* file write may reject.                                                  *)
(***************************************************************************)
EXTENDS Integers, Sequences, FiniteSets, TLC

\* Number of sessions (activations) in one behaviour.
MaxRuns == 3

\* Number of windows (extension hosts) that activate the extension side by side.
MaxWindows == 2

\* Number of reload-window prompts of one session that are counted apart.
MaxPrompts == 2

\* Number of webview panels one SettingsPanel creates in one behaviour.
MaxPanels == 3

VARIABLES
    \* ---- host: fixed for a behaviour
    arch,                \* process.arch
    platform,            \* process.platform / os.platform()
    alpineRelease,       \* fs.existsSync('/etc/alpine-release')
    insiders,            \* the extension path contains .vscode-insiders / .vscode-exploration
    offlineVsix,         \* the extension was unpacked from the offline VSIX
    \* ---- disk: persists across sessions
    lockFile,            \* the install lock file exists
    packageJson,         \* package.json on disk (util.getRawPackageJson reads it)
    debugConfigFile,     \* debugAdapters/bin/OpenDebugAD7.exe.config: "present" | "unused" | "absent"
    executable,          \* files that have been granted execute permission
    \* ---- session: module-level state of one activation
    pc,                  \* position of the activation in the code
    run,                 \* number of activations started so far
    intelliSenseEngine,  \* the C_Cpp.intelliSenseEngine setting of the session
    loadedPackageJson,   \* util.packageJson: the manifest as loaded when the session started
    installationInformation, \* getInstallationInformation(): stage, hasError, type, telemetryProperties
    telemetryLog,        \* the "acquisition" events handed to Telemetry.logDebuggerEvent, in order
    error,               \* the value a rejected await carries to the catch block
    languageServiceDisabled,
    languageServerActivated, \* getTemporaryCommandRegistrarInstance().activateLanguageServer() was called
    configListener,      \* the onDidChangeConfiguration listener registered: "none" | "promptOnEnable" | "promptOnDisable"
    messages,            \* user-visible error messages shown in the session
    outputChannel,       \* the lines of note appended to the output channel logger
    outputChannelShown,  \* showOutputChannel() was called
    progress,            \* util.setProgress: "unset" | "0" | "InstallSuccess"
    downloaded,          \* packages DownloadPackages has fetched and verified in this session, in order
    installed,           \* packages InstallPackages has extracted in this session, in order
    result,              \* what activate() returned: "none" | "NullCppTools" | "cppTools" | "rejected"
    \* ---- history of the session (read by the properties only)
    path,                \* branch of processRuntimeDependencies: "none" | "online" | "offline" | "installed"
    stagesEntered,       \* the arguments of setInstallationStage, in call order
    failedAt,            \* installationInformation.stage when the first await of the session rejected
    lockWrites,          \* number of times this session wrote the lock file
    finalizeReached,     \* finalizeExtensionActivation was entered in this session
    startLock,           \* lockFile when the session started
    startDisk,           \* <<lockFile, packageJson, executable>> when the session started
    completedBefore,     \* an earlier session ran finalizeExtensionActivation to completion
    earlier,             \* what the offline installations of the earlier sessions did, see Activate
    \* ---- the session after activate() has settled
    configuration,       \* the C_Cpp.intelliSenseEngine setting as it is now
    reloadMessageShown,
    prompts,             \* number of util.promptForReloadWindowDueToSettingsChange() calls of the session
    deactivation,        \* deactivate(): "none" | "returned" | "LanguageServer.deactivate"
    \* ---- the SettingsPanel object
    telemetry,           \* this.telemetry has a key
    configUILogged,      \* telemetry.logLanguageServerEvent("ConfigUI", ...) was called
    emittersDisposed,    \* this.disposable (the four event emitters) was disposed
    configValues,
    compilerPaths,
    panel,               \* this.panel: 0 for undefined, else the number of the webview panel
    disposablesPanel,    \* this.disposablesPanel: 0 for undefined, else the panel it was made from
    panelsCreated,       \* number of createWebviewPanel calls so far
    livePanels,          \* the webview panels created and not disposed
    listeners,           \* the panels whose four event subscriptions are registered
    webview,             \* what the webview of this.panel was given: html, config
    disposeOutcome,      \* dispose(): "none" | "completed" | "threw"
    \* ---- several extension hosts on the same extension directory
    windows              \* per window: where its activate() is, see WindowIdle

hostVars == <<arch, platform, alpineRelease, insiders, offlineVsix>>
diskVars == <<lockFile, packageJson, debugConfigFile, executable>>
sessionVars == <<pc, run, intelliSenseEngine, loadedPackageJson,
                 installationInformation, telemetryLog, error,
                 languageServiceDisabled, languageServerActivated, configListener,
                 messages, outputChannel, outputChannelShown, progress,
                 downloaded, installed, result>>
historyVars == <<path, stagesEntered, failedAt, lockWrites, finalizeReached,
                 startLock, startDisk, completedBefore, earlier>>
eventVars == <<configuration, reloadMessageShown, prompts, deactivation>>
panelVars == <<telemetry, configUILogged, emittersDisposed, configValues, compilerPaths,
               panel, disposablesPanel, panelsCreated, livePanels, listeners, webview,
               disposeOutcome>>
vars == <<hostVars, diskVars, sessionVars, historyVars, eventVars, panelVars, windows>>

----------------------------------------------------------------------------
(* Data *)

Archs == {"ia32", "x64", "arm"}
Platforms == {"linux", "win32", "darwin"}

\* activationEvents of the packaged manifest: the single wildcard trigger.
WildcardActivationEvents == <<"*">>

\* activationEvents written by rewriteManifest.
ExplicitActivationEvents ==
    << "onLanguage:cpp",
       "onLanguage:c",
       "onCommand:extension.pickNativeProcess",
       "onCommand:extension.pickRemoteNativeProcess",
       "onCommand:C_Cpp.BuildAndDebugActiveFile",
       "onCommand:C_Cpp.ConfigurationEditJSON",
       "onCommand:C_Cpp.ConfigurationEditUI",
       "onCommand:C_Cpp.ConfigurationSelect",
       "onCommand:C_Cpp.ConfigurationProviderSelect",
       "onCommand:C_Cpp.SwitchHeaderSource",
       "onCommand:C_Cpp.Navigate",
       "onCommand:C_Cpp.EnableErrorSquiggles",
       "onCommand:C_Cpp.DisableErrorSquiggles",
       "onCommand:C_Cpp.ToggleIncludeFallback",
       "onCommand:C_Cpp.ToggleDimInactiveRegions",
       "onCommand:C_Cpp.ResetDatabase",
       "onCommand:C_Cpp.TakeSurvey",
       "onCommand:C_Cpp.LogDiagnostics",
       "onCommand:C_Cpp.RescanWorkspace",
       "onCommand:C_Cpp.VcpkgClipboardInstallSuggested",
       "onCommand:C_Cpp.VcpkgClipboardOnlineHelpSuggested",
       "onDebug",
       "workspaceContains:/.vscode/c_cpp_properties.json" >>

\* util.packageJson["runtimeDependencies"]: the catalog. architectures = {} stands
\* for an undefined architectures field.
runtimeDependencies ==
    << [description |-> "C/C++ language components (Linux / x86_64)",
        url |-> "https://example.invalid/bin_Linux_x64.zip",
        platforms |-> {"linux"}, architectures |-> {"x86_64"}, hasArchitectures |-> TRUE,
        binaries |-> {"./bin/Microsoft.VSCode.CPP.Extension.linux"}],
       [description |-> "C/C++ language components (Windows)",
        url |-> "https://example.invalid/bin_Windows.zip",
        platforms |-> {"win32"}, architectures |-> {}, hasArchitectures |-> FALSE,
        binaries |-> {"./bin/Microsoft.VSCode.CPP.Extension.exe"}],
       [description |-> "Mono Framework Assemblies",
        url |-> "https://example.invalid/TargetFrameworks.zip",
        platforms |-> {"linux", "darwin"}, architectures |-> {}, hasArchitectures |-> FALSE,
        binaries |-> {}],
       [description |-> "C/C++ language components (Linux / x86)",
        url |-> "https://example.invalid/bin_Linux_x86.zip",
        platforms |-> {"linux"}, architectures |-> {"x86"}, hasArchitectures |-> TRUE,
        binaries |-> {"./bin/Microsoft.VSCode.CPP.Extension.linux32"}] >>

OpenDebugAD7 == "./debugAdapters/OpenDebugAD7"

\* The empty property bag.
NoProperties == [k \in {} |-> ""]

\* telemetryProperties[k] = v
Put(m, k, v) == [x \in (DOMAIN m) \cup {k} |-> IF x = k THEN v ELSE m[x]]

NoError == [kind |-> "none"]

FreshInstallationInformation ==
    [stage |-> "none", hasError |-> FALSE, type |-> "none",
     telemetryProperties |-> NoProperties]

FreshPackageJson ==
    [activationEvents |-> WildcardActivationEvents,
     intelliSenseEngineDefault |-> "Default",
     enhancedColorizationDefault |-> "Enabled",
     updateChannelDefault |-> "Default"]

\* A package.json cut off in the middle of its text: no field of it can be read.
TruncatedManifest ==
    [activationEvents |-> <<>>, intelliSenseEngineDefault |-> "",
     enhancedColorizationDefault |-> "", updateChannelDefault |-> ""]

Windows == 1..MaxWindows

\* A window whose extension host has not activated the extension yet. `at` is the
\* position in the stage sequence of its installation, `lockWrites` the number of
\* times it wrote the lock file.
WindowIdle ==
    [pc |-> "idle", path |-> "none", at |-> 0, activationEvents |-> <<>>,
     lockWrites |-> 0, failedAt |-> "none"]

----------------------------------------------------------------------------
(* Initial state: a freshly unpacked extension. The online VSIX ships no   *)
(* lock file; the offline VSIX ships the lock file with the binaries.      *)

\* A webview that was given neither html nor a configuration.
BlankWebview == [html |-> FALSE, config |-> "none", revealed |-> FALSE]

Init ==
    /\ arch \in Archs
    /\ platform \in Platforms
    /\ alpineRelease \in BOOLEAN
    /\ (alpineRelease => platform = "linux")
    /\ insiders \in BOOLEAN
    /\ offlineVsix \in BOOLEAN
    /\ lockFile = offlineVsix
    /\ packageJson = FreshPackageJson
    /\ debugConfigFile = "present"
    /\ executable = {}
    /\ pc = "idle"
    /\ run = 0
    /\ telemetry = FALSE
    /\ configUILogged = FALSE
    /\ emittersDisposed = FALSE
    /\ configValues = [name |-> "undefined"]
    /\ compilerPaths = <<>>
    /\ panel = 0
    /\ disposablesPanel = 0
    /\ panelsCreated = 0
    /\ livePanels = {}
    /\ listeners = {}
    /\ webview = BlankWebview
    /\ disposeOutcome = "none"
    /\ configuration = "Default"
    /\ reloadMessageShown = FALSE
    /\ prompts = 0
    /\ deactivation = "none"
    /\ intelliSenseEngine = "Default"
    /\ loadedPackageJson = FreshPackageJson
    /\ installationInformation = FreshInstallationInformation
    /\ telemetryLog = <<>>
    /\ error = NoError
    /\ languageServiceDisabled = FALSE
    /\ languageServerActivated = FALSE
    /\ configListener = "none"
    /\ messages = <<>>
    /\ outputChannel = <<>>
    /\ outputChannelShown = FALSE
    /\ progress = "unset"
    /\ downloaded = <<>>
    /\ installed = <<>>
    /\ result = "none"
    /\ path = "none"
    /\ stagesEntered = <<>>
    /\ failedAt = "none"
    /\ lockWrites = 0
    /\ finalizeReached = FALSE
    /\ startLock = lockFile
    /\ startDisk = <<lockFile, packageJson, executable>>
    /\ completedBefore = FALSE
    /\ earlier = [offlineRewritten |-> FALSE, offlineFailedEarly |-> FALSE]
    /\ windows = [w \in Windows |-> WindowIdle]

----------------------------------------------------------------------------
(* activate *)

\* Mutant of UnsupportedMessage: the Alpine check is missing.
UnsupportedMessage_NoAlpineCheck(a, p, alpine) ==
    IF a # "ia32" /\ a # "x64"
    THEN "Architecture " \o a \o " is not supported. "
    ELSE ""

\* The guard of activate: the text of errMsg, "" when the host is supported.
UnsupportedMessage(a, p, alpine) ==
    IF a # "ia32" /\ a # "x64"
    THEN "Architecture " \o a \o " is not supported. "
    ELSE IF p = "linux" /\ alpine
         THEN "Alpine containers are not supported. "
         ELSE ""

\* A session starts: the module is loaded (fresh module-level state, util.packageJson
\* read from disk) and activate runs up to its await of processRuntimeDependencies.
\* The host does not load an extension whose package.json it cannot read.
Activate ==
    /\ pc \in {"idle", "done"}
    /\ run < MaxRuns
    /\ packageJson # TruncatedManifest
    /\ run' = run + 1
    /\ \E setting \in {"Default", "Disabled"} :
          /\ intelliSenseEngine' = setting
          /\ configuration' = setting
    /\ reloadMessageShown' = FALSE
    /\ prompts' = 0
    /\ deactivation' = "none"
    /\ loadedPackageJson' = packageJson
    /\ installationInformation' = FreshInstallationInformation
    /\ telemetryLog' = <<>>
    /\ error' = NoError
    /\ languageServiceDisabled' = FALSE
    /\ languageServerActivated' = FALSE
    /\ configListener' = "none"
    /\ outputChannel' = <<>>
    /\ outputChannelShown' = FALSE
    /\ downloaded' = <<>>
    /\ installed' = <<>>
    /\ path' = "none"
    /\ stagesEntered' = <<>>
    /\ failedAt' = "none"
    /\ lockWrites' = 0
    /\ finalizeReached' = FALSE
    /\ startLock' = lockFile
    /\ startDisk' = <<lockFile, packageJson, executable>>
    /\ completedBefore' = (completedBefore \/ (pc = "done" /\ result = "cppTools" /\ finalizeReached /\ failedAt = "none"))
    /\ LET rewritten == /\ \E k \in DOMAIN stagesEntered : stagesEntered[k] = "rewriteManifest"
                        /\ failedAt # "rewriteManifest"
       IN earlier' = [offlineRewritten |-> earlier.offlineRewritten \/ (path = "offline" /\ rewritten),
                      offlineFailedEarly |-> (path = "offline" /\ ~rewritten)]
    /\ IF UnsupportedMessage(arch, platform, alpineRelease) # ""
       THEN /\ messages' = <<UnsupportedMessage(arch, platform, alpineRelease)>>
            /\ progress' = "unset"
            /\ result' = "NullCppTools"
            /\ pc' = "done"
       ELSE /\ messages' = <<>>
            /\ progress' = "0"
            /\ result' = "none"
            /\ pc' = "processRuntimeDependencies"
    /\ UNCHANGED <<hostVars, diskVars, panelVars, windows>>

----------------------------------------------------------------------------
(* Collaborators outside main.ts *)

\* PlatformInformation.GetPlatformInformation(): a pure query of the host.
GetPlatformInformation(a, p) ==
    [platform |-> p,
     architecture |-> IF a = "x64" THEN "x86_64" ELSE "x86",
     distribution |-> IF p = "linux"
                      THEN [present |-> TRUE, name |-> "ubuntu", version |-> "18.04"]
                      ELSE [present |-> FALSE, name |-> "", version |-> ""]]

\* Whether GetPlatformInformation() rejects (UnsupportedPlatform): on an architecture
\* outside the x86 family and in an Alpine (musl) container.
GetPlatformInformationRejects(a, p, alpine) ==
    (a \notin {"ia32", "x64"}) \/ (p = "linux" /\ alpine)

\* PackageManager.GetPackages: the catalog entries that apply to the host.
PackageApplies(pkg, info) ==
    /\ info.platform \in pkg.platforms
    /\ (~pkg.hasArchitectures \/ info.architecture \in pkg.architectures)

\* The selected packages, as their indices in the catalog, in catalog order.
SelectedPackages(info) ==
    SelectSeq([i \in 1..Len(runtimeDependencies) |-> i],
              LAMBDA i : PackageApplies(runtimeDependencies[i], info))

\* Words util.removePotentialPII replaces: those holding a '.', '/', '\' or ':'.
PathLikeWords ==
    {"/home/alice/.vscode/extensions/package.json",
     "/home/alice/.vscode/extensions/install.lock",
     "/tmp/alice/package.zip",
     "alice.example.org:443",
     "/home/alice/.vscode/extensions/bin"}

RECURSIVE JoinWords(_)
\* words.join(" "): the text of an error as thrown.
JoinWords(words) ==
    IF words = <<>> THEN ""
    ELSE IF Len(words) = 1 THEN Head(words)
    ELSE Head(words) \o " " \o JoinWords(Tail(words))

RECURSIVE removePotentialPII(_)
\* util.removePotentialPII, on the words of str.split(" ").
removePotentialPII(words) ==
    IF words = <<>> THEN ""
    ELSE (IF Head(words) \in PathLikeWords THEN "? " ELSE Head(words) \o " ")
         \o removePotentialPII(Tail(words))

\* A PackageManagerError as DownloadPackages / InstallPackages reject with.
PackageManagerError(methodName, message, inner, pkg, code) ==
    [kind |-> "PackageManagerError", methodName |-> methodName, message |-> message,
     hasInnerError |-> inner # <<>>, innerError |-> inner,
     hasPkg |-> TRUE, pkg |-> pkg,
     hasErrorCode |-> code # <<>>, errorCode |-> code]

\* Any other rejection value: a node Error.
OtherError(words) == [kind |-> "Error", text |-> words]

DownloadErrors(pkg) ==
    {PackageManagerError("DownloadFile", <<"Request", "error", "alice.example.org:443">>,
                         <<"connect", "ETIMEDOUT", "alice.example.org:443">>, pkg, <<"ETIMEDOUT">>),
     PackageManagerError("DownloadFile", <<"Checksum", "mismatch">>, <<>>, pkg, <<>>)}

InstallErrors(pkg) ==
    {PackageManagerError("InstallPackage", <<"Zip", "file", "error", "/tmp/alice/package.zip">>,
                         <<"EACCES", "/home/alice/.vscode/extensions/bin">>, pkg, <<"EACCES">>)}

WriteManifestError == OtherError(<<"EACCES", "/home/alice/.vscode/extensions/package.json">>)
TouchLockError == OtherError(<<"EROFS", "/home/alice/.vscode/extensions/install.lock">>)
PlatformError == OtherError(<<"Unknown", "platform">>)

----------------------------------------------------------------------------
(* Steps shared by the actions *)

\* setInstallationStage(s), with the history of stages.
SetStage(s) ==
    /\ installationInformation' = [installationInformation EXCEPT !.stage = s]
    /\ stagesEntered' = Append(stagesEntered, s)

\* setInstallationStage(s); setInstallationType(t)
SetStageAndType(s, t) ==
    /\ installationInformation' = [installationInformation EXCEPT !.stage = s, !.type = t]
    /\ stagesEntered' = Append(stagesEntered, s)

\* Mutant of Reject: the rejection is swallowed and the activation goes on.
Reject_SwallowedThenActivates(e) ==
    /\ pc' = "finalizeExtensionActivation"
    /\ error' = e
    /\ failedAt' = IF failedAt = "none" THEN installationInformation'.stage ELSE failedAt

\* An awaited promise rejects with e inside onlineInstallation / offlineInstallation:
\* control passes to the catch block of processRuntimeDependencies.
Reject(e) ==
    /\ pc' = "catch"
    /\ error' = e
    /\ failedAt' = IF failedAt = "none" THEN installationInformation'.stage ELSE failedAt

NoReject(next) ==
    /\ pc' = next
    /\ UNCHANGED <<error, failedAt>>

----------------------------------------------------------------------------
(* processRuntimeDependencies *)

\* Mutant of ChoosePath: the activationEvents of the manifest are not looked at.
ChoosePath_IgnoresActivationEvents(installLockExists, activationEvents) ==
    IF installLockExists THEN "installed" ELSE "online"

\* Variant: the offline installation runs whenever the lock file exists.
ChoosePath_OfflineWheneverLocked(installLockExists, activationEvents) ==
    IF installLockExists THEN "offline" ELSE "online"

\* The branch processRuntimeDependencies takes.
ChoosePath(installLockExists, activationEvents) ==
    IF installLockExists
    THEN IF Len(activationEvents) = 1 THEN "offline" ELSE "installed"
    ELSE "online"

ProcessRuntimeDependencies ==
    /\ pc = "processRuntimeDependencies"
    /\ path' = ChoosePath(lockFile, loadedPackageJson.activationEvents)
    /\ pc' = CASE path' = "offline" -> "offlineInstallation"
               [] path' = "online" -> "onlineInstallation"
               [] OTHER -> "finalizeExtensionActivation"
    /\ UNCHANGED <<hostVars, windows, eventVars, panelVars, diskVars, run, intelliSenseEngine, loadedPackageJson,
                   installationInformation, telemetryLog, error,
                   languageServiceDisabled, languageServerActivated, configListener,
                   messages, outputChannel, outputChannelShown, progress,
                   downloaded, installed, result,
                   stagesEntered, failedAt, lockWrites, finalizeReached,
                   startLock, startDisk, completedBefore, earlier>>

----------------------------------------------------------------------------
(* onlineInstallation *)

\* Everything an installation step leaves alone besides what it names.
InstallFrame ==
    UNCHANGED <<hostVars, windows, eventVars, panelVars, run, intelliSenseEngine, loadedPackageJson,
                telemetryLog, languageServiceDisabled, languageServerActivated,
                configListener, messages, outputChannelShown, progress, result,
                path, lockWrites, finalizeReached, startLock, startDisk, completedBefore, earlier>>

OnlineGetPlatformInfo ==
    /\ pc = "onlineInstallation"
    /\ SetStageAndType("getPlatformInfo", "online")
    /\ IF ~GetPlatformInformationRejects(arch, platform, alpineRelease)
       THEN /\ NoReject("downloadAndInstallPackages")
       ELSE /\ Reject(PlatformError)
    /\ InstallFrame
    /\ UNCHANGED <<diskVars, outputChannel, downloaded, installed>>

\* downloadAndInstallPackages up to the first await of the withProgress callback.
BeginDownloadPackages ==
    /\ pc = "downloadAndInstallPackages"
    /\ outputChannel' = Append(outputChannel, "Updating C/C++ dependencies...")
    /\ SetStage("downloadPackages")
    /\ NoReject("DownloadPackages")
    /\ InstallFrame
    /\ UNCHANGED <<diskVars, downloaded, installed>>

\* PackageManager.DownloadPackages: the selected packages one after the other; the
\* first package that fails rejects the whole call.
DownloadPackage ==
    /\ pc = "DownloadPackages"
    /\ LET selected == SelectedPackages(GetPlatformInformation(arch, platform))
           i == Len(downloaded) + 1
       IN /\ i <= Len(selected)
          /\ \/ /\ downloaded' = Append(downloaded, selected[i])
                /\ NoReject("DownloadPackages")
                /\ UNCHANGED installationInformation
             \/ /\ UNCHANGED <<downloaded, installationInformation>>
                /\ \E e \in DownloadErrors(selected[i]) : Reject(e)
    /\ InstallFrame
    /\ UNCHANGED <<diskVars, outputChannel, installed, stagesEntered>>

\* Variant: the callback goes on to InstallPackages without awaiting DownloadPackages.
BeginInstallPackages_DownloadsNotAwaited ==
    /\ pc = "DownloadPackages"
    /\ SetStage("installPackages")
    /\ NoReject("InstallPackages")
    /\ InstallFrame
    /\ UNCHANGED <<diskVars, outputChannel, downloaded, installed>>

\* DownloadPackages resolved: the callback goes on to InstallPackages.
BeginInstallPackages ==
    /\ pc = "DownloadPackages"
    /\ Len(downloaded) = Len(SelectedPackages(GetPlatformInformation(arch, platform)))
    /\ SetStage("installPackages")
    /\ NoReject("InstallPackages")
    /\ InstallFrame
    /\ UNCHANGED <<diskVars, outputChannel, downloaded, installed>>

\* PackageManager.InstallPackages: the downloaded packages one after the other.
InstallPackage ==
    /\ pc = "InstallPackages"
    /\ LET i == Len(installed) + 1
       IN /\ i <= Len(downloaded)
          /\ \/ /\ installed' = Append(installed, downloaded[i])
                /\ NoReject("InstallPackages")
                /\ UNCHANGED installationInformation
             \/ /\ UNCHANGED <<installed, installationInformation>>
                /\ \E e \in InstallErrors(downloaded[i]) : Reject(e)
    /\ InstallFrame
    /\ UNCHANGED <<diskVars, outputChannel, downloaded, stagesEntered>>

\* InstallPackages resolved: withProgress resolves, onlineInstallation continues.
EndInstallPackages ==
    /\ pc = "InstallPackages"
    /\ Len(installed) = Len(downloaded)
    /\ NoReject("makeBinariesExecutable")
    /\ InstallFrame
    /\ UNCHANGED <<diskVars, outputChannel, downloaded, installed,
                   installationInformation, stagesEntered>>

----------------------------------------------------------------------------
(* makeBinariesExecutable, makeOfflineBinariesExecutable, removeUnnecessaryFile *)

\* Variant: allowExecution rejects when chmod is refused.
allowExecutionRejects_OnRefusal(chmodOk) == ~chmodOk

\* util.allowExecution(file): whether the promise rejects when chmod is refused.
\* A refused chmod is reported as a warning and the promise resolves.
allowExecutionRejects(chmodOk) == FALSE

\* The output channel line of a refused chmod.
ChmodWarning(file) == "Warning: could not make " \o file \o " executable."

\* The effect of awaiting allowExecution on each file of `files`, chmod succeeding on
\* the files of `granted`: a no-op on win32.
AllowExecution(files, granted) ==
    IF platform = "win32"
    THEN UNCHANGED <<executable, outputChannel>>
    ELSE /\ executable' = executable \cup (files \cap granted)
         /\ outputChannel' = IF files \subseteq granted
                             THEN outputChannel
                             ELSE Append(outputChannel, ChmodWarning(CHOOSE f \in files \ granted : TRUE))

\* Variant: the offline installation goes from makeBinariesExecutable straight to
\* removeUnnecessaryFile.
MakeBinariesExecutable_SkipsOfflineBinaries ==
    /\ pc = "makeBinariesExecutable"
    /\ SetStage("makeBinariesExecutable")
    /\ \E chmodOk \in BOOLEAN :
          /\ (platform = "win32" => chmodOk)
          /\ AllowExecution({OpenDebugAD7}, IF chmodOk THEN {OpenDebugAD7} ELSE {})
          /\ NoReject("removeUnnecessaryFile")
    /\ InstallFrame
    /\ UNCHANGED <<lockFile, packageJson, debugConfigFile, downloaded, installed>>

MakeBinariesExecutable ==
    /\ pc = "makeBinariesExecutable"
    /\ SetStage("makeBinariesExecutable")
    /\ \E chmodOk \in BOOLEAN :
          /\ (platform = "win32" => chmodOk)
          /\ AllowExecution({OpenDebugAD7}, IF chmodOk THEN {OpenDebugAD7} ELSE {})
          /\ IF allowExecutionRejects(chmodOk)
             THEN Reject(OtherError(<<"EPERM", "chmod">>))
             ELSE NoReject(IF path = "offline" THEN "makeOfflineBinariesExecutable"
                                               ELSE "removeUnnecessaryFile")
    /\ InstallFrame
    /\ UNCHANGED <<lockFile, packageJson, debugConfigFile, downloaded, installed>>

\* Variant: makeOfflineBinariesExecutable does not look at the architectures.
OfflineBinaries_IgnoresArchitectures(info) ==
    UNION {runtimeDependencies[i].binaries : i \in
             {j \in DOMAIN runtimeDependencies :
                 /\ runtimeDependencies[j].binaries # {}
                 /\ info.platform \in runtimeDependencies[j].platforms}}

\* The binaries makeOfflineBinariesExecutable hands to allowExecution.
OfflineBinaries(info) ==
    UNION {runtimeDependencies[i].binaries : i \in
             {j \in DOMAIN runtimeDependencies :
                 /\ runtimeDependencies[j].binaries # {}
                 /\ info.platform \in runtimeDependencies[j].platforms
                 /\ (~runtimeDependencies[j].hasArchitectures
                     \/ info.architecture \in runtimeDependencies[j].architectures)}}

MakeOfflineBinariesExecutable ==
    /\ pc = "makeOfflineBinariesExecutable"
    /\ SetStage("makeOfflineBinariesExecutable")
    /\ LET files == OfflineBinaries(GetPlatformInformation(arch, platform))
       IN \E granted \in SUBSET files :
             /\ (platform = "win32" => granted = files)
             /\ AllowExecution(files, granted)
             /\ IF allowExecutionRejects(granted = files)
                THEN Reject(OtherError(<<"EPERM", "chmod">>))
                ELSE NoReject("removeUnnecessaryFile")
    /\ InstallFrame
    /\ UNCHANGED <<lockFile, packageJson, debugConfigFile, downloaded, installed>>

\* Variant: removeUnnecessaryFile rejects when fs.rename reports an error.
RemoveUnnecessaryFile_RenameRejects ==
    /\ pc = "removeUnnecessaryFile"
    /\ SetStage("removeUnnecessaryFile")
    /\ IF platform # "win32" /\ debugConfigFile = "present"
       THEN \E renamed \in BOOLEAN :
               IF renamed
               THEN /\ debugConfigFile' = "unused"
                    /\ UNCHANGED outputChannel
                    /\ NoReject("rewriteManifest")
               ELSE /\ outputChannel' = Append(outputChannel, "ERROR: fs.rename failed")
                    /\ UNCHANGED debugConfigFile
                    /\ Reject(OtherError(<<"EPERM", "rename">>))
       ELSE /\ UNCHANGED <<debugConfigFile, outputChannel>>
            /\ NoReject("rewriteManifest")
    /\ InstallFrame
    /\ UNCHANGED <<lockFile, packageJson, executable, downloaded, installed>>

\* removeUnnecessaryFile resolves whatever fs.rename reports.
RemoveUnnecessaryFile ==
    /\ pc = "removeUnnecessaryFile"
    /\ SetStage("removeUnnecessaryFile")
    /\ IF platform # "win32" /\ debugConfigFile = "present"
       THEN \E renamed \in BOOLEAN :
               IF renamed
               THEN /\ debugConfigFile' = "unused"
                    /\ UNCHANGED outputChannel
               ELSE /\ outputChannel' = Append(outputChannel, "ERROR: fs.rename failed")
                    /\ UNCHANGED debugConfigFile
       ELSE UNCHANGED <<debugConfigFile, outputChannel>>
    /\ NoReject("rewriteManifest")
    /\ InstallFrame
    /\ UNCHANGED <<lockFile, packageJson, executable, downloaded, installed>>

----------------------------------------------------------------------------
(* rewriteManifest, touchInstallLockFile *)

\* util.writeFileText(path, text): the contents the file can have after the call. The
\* text is written in place, so a write that fails leaves the file as it was or cut
\* off.
writeFileText(old, new, ok) == IF ok THEN {new} ELSE {old, TruncatedManifest}

\* Mutant of RewrittenManifest: activationEvents is not replaced.
RewrittenManifest_KeepsActivationEvents(raw) == raw

\* The manifest rewriteManifest hands to writeFileText.
RewrittenManifest(raw) == [raw EXCEPT !.activationEvents = ExplicitActivationEvents]

\* Mutant of AfterRewriteManifest: the offline installation touches the lock file too.
AfterRewriteManifest_AlwaysTouchesLock(p) == "touchInstallLockFile"

\* The step that follows rewriteManifest in onlineInstallation / offlineInstallation.
AfterRewriteManifest(p) == IF p = "online" THEN "touchInstallLockFile" ELSE "postInstall"

\* Variant: onlineInstallation and offlineInstallation go on when rewriteManifest
\* rejects.
RewriteManifest_ContinuesOnFailure ==
    /\ pc = "rewriteManifest"
    /\ SetStage("rewriteManifest")
    /\ \E ok \in BOOLEAN :
          /\ packageJson' \in writeFileText(packageJson, RewrittenManifest(packageJson), ok)
          /\ NoReject(AfterRewriteManifest(path))
    /\ InstallFrame
    /\ UNCHANGED <<lockFile, debugConfigFile, executable, outputChannel, downloaded, installed>>

RewriteManifest ==
    /\ pc = "rewriteManifest"
    /\ SetStage("rewriteManifest")
    /\ \E ok \in BOOLEAN :
          /\ packageJson' \in writeFileText(packageJson, RewrittenManifest(packageJson), ok)
          /\ IF ok
             THEN NoReject(AfterRewriteManifest(path))
             ELSE Reject(WriteManifestError)
    /\ InstallFrame
    /\ UNCHANGED <<lockFile, debugConfigFile, executable, outputChannel, downloaded, installed>>

\* util.touchInstallLockFile(): the lock file exists afterwards unless the write fails.
TouchedLockFile(before, ok) == before \/ ok

\* Mutant of TouchInstallLockFile: a failed write of the lock file is not reported.
TouchInstallLockFile_FailureNotReported ==
    /\ pc = "touchInstallLockFile"
    /\ SetStage("touchInstallLockFile")
    /\ \E ok \in BOOLEAN :
          /\ lockFile' = TouchedLockFile(lockFile, ok)
          /\ lockWrites' = IF ok THEN lockWrites + 1 ELSE lockWrites
          /\ NoReject("postInstall")
    /\ UNCHANGED <<hostVars, windows, eventVars, panelVars, run, intelliSenseEngine, loadedPackageJson,
                   telemetryLog, languageServiceDisabled, languageServerActivated,
                   configListener, messages, outputChannelShown, progress, result,
                   path, finalizeReached, startLock, startDisk, completedBefore, earlier>>
    /\ UNCHANGED <<packageJson, debugConfigFile, executable, outputChannel, downloaded, installed>>

TouchInstallLockFile ==
    /\ pc = "touchInstallLockFile"
    /\ SetStage("touchInstallLockFile")
    /\ \E ok \in BOOLEAN :
          /\ lockFile' = TouchedLockFile(lockFile, ok)
          /\ lockWrites' = IF ok THEN lockWrites + 1 ELSE lockWrites
          /\ IF ok THEN NoReject("postInstall") ELSE Reject(TouchLockError)
    /\ UNCHANGED <<hostVars, windows, eventVars, panelVars, run, intelliSenseEngine, loadedPackageJson,
                   telemetryLog, languageServiceDisabled, languageServerActivated,
                   configListener, messages, outputChannelShown, progress, result,
                   path, finalizeReached, startLock, startDisk, completedBefore, earlier>>
    /\ UNCHANGED <<packageJson, debugConfigFile, executable, outputChannel, downloaded, installed>>

----------------------------------------------------------------------------
(* handleError, sendTelemetry *)

\* The text handleError writes to the output channel (the message as thrown).
ErrorMessage(e) ==
    IF e.kind = "PackageManagerError"
    THEN IF e.hasInnerError THEN JoinWords(e.innerError) ELSE JoinWords(e.message)
    ELSE JoinWords(e.text)

\* Mutant of handleError: hasError is not set.
handleError_HasErrorNotSet(ii, e) ==
    [ii EXCEPT !.telemetryProperties = Put(ii.telemetryProperties, "stage", ii.stage)]

\* The InstallationInformation after handleError(e).
handleError(ii, e) ==
    LET p0 == Put(ii.telemetryProperties, "stage", ii.stage)
        p1 == IF e.kind = "PackageManagerError"
              THEN LET a == Put(Put(p0, "error.methodName", e.methodName),
                                "error.message", JoinWords(e.message))
                       b == IF e.hasInnerError
                            THEN Put(a, "error.innerError", removePotentialPII(e.innerError))
                            ELSE a
                       c == IF e.hasPkg
                            THEN Put(Put(b, "error.packageName", runtimeDependencies[e.pkg].description),
                                     "error.packageUrl", runtimeDependencies[e.pkg].url)
                            ELSE b
                   IN IF e.hasErrorCode
                      THEN Put(c, "error.errorCode", removePotentialPII(e.errorCode))
                      ELSE c
              ELSE Put(p0, "error.toString", removePotentialPII(e.text))
    IN [ii EXCEPT !.hasError = TRUE, !.telemetryProperties = p1]

\* Mutant of sendTelemetryProperties: success is reported inverted.
sendTelemetryProperties_SuccessInverted(ii, info) ==
    Put(Put(Put(ii.telemetryProperties, "success", IF ii.hasError THEN "true" ELSE "false"),
            "type", IF ii.type = "online" THEN "online" ELSE "offline"),
        "osArchitecture", info.architecture)

\* The properties sendTelemetry(info) leaves in the blob and logs.
sendTelemetryProperties(ii, info) ==
    LET p0 == Put(ii.telemetryProperties, "success", IF ~ii.hasError THEN "true" ELSE "false")
        p1 == Put(p0, "type", IF ii.type = "online" THEN "online" ELSE "offline")
        p2 == IF info.distribution.present
              THEN Put(Put(p1, "linuxDistroName", info.distribution.name),
                       "linuxDistroVersion", info.distribution.version)
              ELSE p1
    IN Put(p2, "osArchitecture", info.architecture)

\* sendTelemetry(info) on the blob ii: the blob, the logged event, the progress.
SendTelemetry(ii, info) ==
    /\ installationInformation' =
          [ii EXCEPT !.telemetryProperties = sendTelemetryProperties(ii, info)]
    /\ telemetryLog' = Append(telemetryLog, sendTelemetryProperties(ii, info))
    /\ progress' = IF ~ii.hasError THEN "InstallSuccess" ELSE progress

----------------------------------------------------------------------------
(* The catch blocks of processRuntimeDependencies *)

\* Variant: the catch block of the online installation deletes the lock file.
CatchOnline_RemovesLockFile ==
    /\ pc = "catch"
    /\ path = "online"
    /\ lockFile' = FALSE
    /\ outputChannel' = Append(Append(outputChannel,
                           "Failed at stage: " \o installationInformation.stage),
                           ErrorMessage(error))
    /\ outputChannelShown' = TRUE
    /\ SendTelemetry(handleError(installationInformation, error),
                     GetPlatformInformation(arch, platform))
    /\ result' = "cppTools"
    /\ pc' = "done"
    /\ UNCHANGED <<hostVars, windows, eventVars, panelVars, packageJson, debugConfigFile, executable, run,
                   intelliSenseEngine, loadedPackageJson,
                   error, languageServiceDisabled, languageServerActivated, configListener,
                   messages, downloaded, installed, historyVars>>

CatchOnline ==
    /\ pc = "catch"
    /\ path = "online"
    /\ outputChannel' = Append(Append(outputChannel,
                           "Failed at stage: " \o installationInformation.stage),
                           ErrorMessage(error))
    /\ outputChannelShown' = TRUE
    /\ IF ~GetPlatformInformationRejects(arch, platform, alpineRelease)
       THEN /\ SendTelemetry(handleError(installationInformation, error),
                             GetPlatformInformation(arch, platform))
            /\ result' = "cppTools"
       ELSE /\ installationInformation' = handleError(installationInformation, error)
            /\ result' = "rejected"
            /\ UNCHANGED <<telemetryLog, progress>>
    /\ pc' = "done"
    /\ UNCHANGED <<hostVars, windows, eventVars, panelVars, diskVars, run, intelliSenseEngine, loadedPackageJson,
                   error, languageServiceDisabled, languageServerActivated, configListener,
                   messages, downloaded, installed, historyVars>>

CatchOffline ==
    /\ pc = "catch"
    /\ path = "offline"
    /\ messages' = Append(messages, "The installation of the C/C++ extension failed. Please see the output window for more information.")
    /\ outputChannelShown' = TRUE
    /\ IF ~GetPlatformInformationRejects(arch, platform, alpineRelease)
       THEN /\ SendTelemetry(installationInformation, GetPlatformInformation(arch, platform))
            /\ result' = "cppTools"
       ELSE /\ result' = "rejected"
            /\ UNCHANGED <<installationInformation, telemetryLog, progress>>
    /\ pc' = "done"
    /\ UNCHANGED <<hostVars, windows, eventVars, panelVars, diskVars, run, intelliSenseEngine, loadedPackageJson,
                   error, languageServiceDisabled, languageServerActivated, configListener,
                   outputChannel, downloaded, installed, historyVars>>

----------------------------------------------------------------------------
(* offlineInstallation *)

OfflineGetPlatformInfo ==
    /\ pc = "offlineInstallation"
    /\ SetStageAndType("getPlatformInfo", "offline")
    /\ IF ~GetPlatformInformationRejects(arch, platform, alpineRelease)
       THEN NoReject("makeBinariesExecutable")
       ELSE Reject(PlatformError)
    /\ InstallFrame
    /\ UNCHANGED <<diskVars, outputChannel, downloaded, installed>>

----------------------------------------------------------------------------
(* postInstall, finalizeExtensionActivation *)

\* postInstall up to its call of finalizeExtensionActivation. util.checkDistro only
\* writes a notice on platforms other than win32, linux and darwin.
PostInstall ==
    /\ pc = "postInstall"
    /\ stagesEntered' = Append(stagesEntered, "postInstall")
    /\ outputChannel' = Append(outputChannel, "Finished installing dependencies")
    /\ SendTelemetry([installationInformation EXCEPT !.stage = "postInstall"],
                     GetPlatformInformation(arch, platform))
    /\ IF installationInformation.hasError
       THEN Reject(OtherError(<<>>))
       ELSE NoReject("finalizeExtensionActivation")
    /\ UNCHANGED <<hostVars, windows, eventVars, panelVars, diskVars, run, intelliSenseEngine, loadedPackageJson,
                   languageServiceDisabled, languageServerActivated, configListener,
                   messages, outputChannelShown, downloaded, installed, result,
                   path, lockWrites, finalizeReached, startLock, startDisk, completedBefore, earlier>>

\* The manifest finalizeExtensionActivation computes from the raw one and the A/B
\* test settings.
ABTestedManifest(raw, isInsiders, useDefaultIntelliSenseEngine, useEnhancedColorization) ==
    LET a == IF ~isInsiders
             THEN [raw EXCEPT !.intelliSenseEngineDefault =
                       IF useDefaultIntelliSenseEngine THEN "Default" ELSE "Tag Parser"]
             ELSE IF raw.updateChannelDefault = "Default"
                  THEN [raw EXCEPT !.updateChannelDefault = "Insiders"]
                  ELSE raw
    IN [a EXCEPT !.enhancedColorizationDefault =
            IF useEnhancedColorization THEN "Enabled" ELSE "Disabled"]

\* Variant: finalizeExtensionActivation always writes package.json.
WritePackageJson_Always(raw, isInsiders, useDefaultIntelliSenseEngine, useEnhancedColorization) ==
    TRUE

\* writePackageJson at the end of finalizeExtensionActivation.
WritePackageJson(raw, isInsiders, useDefaultIntelliSenseEngine, useEnhancedColorization) ==
    LET new == ABTestedManifest(raw, isInsiders, useDefaultIntelliSenseEngine, useEnhancedColorization)
    IN \/ (~isInsiders /\ raw.intelliSenseEngineDefault # new.intelliSenseEngineDefault)
       \/ (isInsiders /\ raw.updateChannelDefault = "Default")
       \/ raw.enhancedColorizationDefault # new.enhancedColorizationDefault

\* finalizeExtensionActivation resolves: called from postInstall, the installation
\* and then processRuntimeDependencies and activate return.
FinalizeResolves ==
    /\ pc' = "done"
    /\ result' = "cppTools"
    /\ UNCHANGED <<error, failedAt>>

\* finalizeExtensionActivation rejects: inside an installation the catch block of
\* processRuntimeDependencies takes it, otherwise activate itself rejects.
FinalizeRejects(e) ==
    IF path = "installed"
    THEN /\ pc' = "done"
         /\ result' = "rejected"
         /\ error' = e
         /\ UNCHANGED failedAt
    ELSE /\ Reject(e)
         /\ UNCHANGED result

FinalizeExtensionActivation ==
    /\ pc = "finalizeExtensionActivation"
    /\ finalizeReached' = TRUE
    /\ UNCHANGED installationInformation
    /\ IF intelliSenseEngine = "Disabled"
       THEN /\ languageServiceDisabled' = TRUE
            /\ configListener' = "promptOnEnable"
            /\ FinalizeResolves
            /\ UNCHANGED <<languageServerActivated, packageJson>>
       ELSE /\ configListener' = "promptOnDisable"
            /\ languageServerActivated' = TRUE
            /\ UNCHANGED languageServiceDisabled
            /\ \E useDefaultIntelliSenseEngine \in BOOLEAN, useEnhancedColorization \in BOOLEAN :
                  IF WritePackageJson(packageJson, insiders, useDefaultIntelliSenseEngine,
                                      useEnhancedColorization)
                  THEN \E ok \in BOOLEAN :
                          /\ packageJson' \in writeFileText(packageJson,
                                               ABTestedManifest(packageJson, insiders,
                                                   useDefaultIntelliSenseEngine,
                                                   useEnhancedColorization), ok)
                          /\ IF ok THEN FinalizeResolves ELSE FinalizeRejects(WriteManifestError)
                  ELSE /\ UNCHANGED packageJson
                       /\ FinalizeResolves
    /\ UNCHANGED <<hostVars, windows, eventVars, panelVars, lockFile, debugConfigFile, executable, run,
                   intelliSenseEngine, loadedPackageJson, telemetryLog, messages,
                   outputChannel, outputChannelShown, progress, downloaded, installed,
                   path, stagesEntered, lockWrites, startLock, startDisk, completedBefore, earlier>>

\* The test of the two onDidChangeConfiguration listeners: the listener of a
\* session that found the setting Disabled prompts when it is no longer
\* Disabled, the listener of the other sessions when it has become Disabled,
\* and neither of them after reloadMessageShown is set.
PromptsForReload_IgnoresReloadMessageShown(listener, shown, setting) ==
    \/ listener = "promptOnEnable" /\ setting # "Disabled"
    \/ listener = "promptOnDisable" /\ setting = "Disabled"

PromptsForReload(listener, shown, setting) ==
    /\ ~shown
    /\ \/ listener = "promptOnEnable" /\ setting # "Disabled"
       \/ listener = "promptOnDisable" /\ setting = "Disabled"

\* An onDidChangeConfiguration event while the session lives.  The event is
\* fired for a change of any setting, so the intelliSenseEngine setting may
\* be what it was.
ConfigurationChanged ==
    /\ pc = "done"
    /\ deactivation = "none"
    /\ \E setting \in {"Default", "Disabled"} :
          /\ configuration' = setting
          /\ IF PromptsForReload(configListener, reloadMessageShown, setting)
             THEN /\ reloadMessageShown' = TRUE
                  /\ prompts' = IF prompts < MaxPrompts THEN prompts + 1 ELSE prompts
             ELSE UNCHANGED <<reloadMessageShown, prompts>>
    /\ UNCHANGED <<hostVars, diskVars, sessionVars, historyVars, deactivation, panelVars, windows>>

\* The guard deactivate() puts before LanguageServer.deactivate().
DeactivatesLanguageServer(disabled, activated) == ~disabled

\* deactivate(): the host calls it once, for a session whose activate() returned.
Deactivate ==
    /\ pc = "done"
    /\ result \in {"NullCppTools", "cppTools"}
    /\ deactivation = "none"
    /\ configListener' = "none"
    /\ deactivation' = IF DeactivatesLanguageServer(languageServiceDisabled, languageServerActivated)
                       THEN "LanguageServer.deactivate"
                       ELSE "returned"
    /\ UNCHANGED <<hostVars, diskVars, historyVars, panelVars, windows,
                   configuration, reloadMessageShown, prompts,
                   pc, run, intelliSenseEngine, loadedPackageJson,
                   installationInformation, telemetryLog, error,
                   languageServiceDisabled, languageServerActivated,
                   messages, outputChannel, outputChannelShown, progress,
                   downloaded, installed, result>>

\* The awaits of one session, after activate has started it.
RunStep ==
    \/ ProcessRuntimeDependencies
    \/ OnlineGetPlatformInfo
    \/ BeginDownloadPackages
    \/ DownloadPackage
    \/ BeginInstallPackages
    \/ InstallPackage
    \/ EndInstallPackages
    \/ OfflineGetPlatformInfo
    \/ MakeBinariesExecutable
    \/ MakeOfflineBinariesExecutable
    \/ RemoveUnnecessaryFile
    \/ RewriteManifest
    \/ TouchInstallLockFile
    \/ PostInstall
    \/ FinalizeExtensionActivation
    \/ CatchOnline
    \/ CatchOffline

Next == Activate \/ RunStep \/ ConfigurationChanged \/ Deactivate

Spec == Init /\ [][Next]_vars

\* Every awaited operation settles and the event loop runs its continuation: a
\* session that can take a step eventually takes one.
FairSpec == Spec /\ WF_vars(RunStep)

----------------------------------------------------------------------------
(* Several windows: each extension host runs activate() of its own on the  *)
(* same extension directory, so on the same lock file and package.json.    *)

\* The stages of the two installations, in the order of their setInstallationStage calls.
OnlineStages ==
    <<"getPlatformInfo", "downloadPackages", "installPackages", "makeBinariesExecutable",
      "removeUnnecessaryFile", "rewriteManifest", "touchInstallLockFile", "postInstall">>

OfflineStages ==
    <<"getPlatformInfo", "makeBinariesExecutable", "makeOfflineBinariesExecutable",
      "removeUnnecessaryFile", "rewriteManifest", "postInstall">>

StagesOf(p) == IF p = "online" THEN OnlineStages ELSE OfflineStages

\* The stages whose operation can reject.
RejectingStages == {"downloadPackages", "installPackages", "rewriteManifest",
                    "touchInstallLockFile"}

\* activate() of window w up to its await of processRuntimeDependencies.
WindowActivate(w) ==
    /\ windows[w].pc = "idle"
    /\ packageJson # TruncatedManifest
    /\ windows' = [windows EXCEPT ![w] =
          IF UnsupportedMessage(arch, platform, alpineRelease) # ""
          THEN [@ EXCEPT !.pc = "done"]
          ELSE [@ EXCEPT !.pc = "processRuntimeDependencies",
                         !.activationEvents = packageJson.activationEvents]]
    /\ UNCHANGED <<hostVars, diskVars, sessionVars, historyVars, eventVars, panelVars>>

\* processRuntimeDependencies of window w: the lock file is looked at here, once.
WindowProcessRuntimeDependencies(w) ==
    /\ windows[w].pc = "processRuntimeDependencies"
    /\ LET p == ChoosePath(lockFile, windows[w].activationEvents)
       IN windows' = [windows EXCEPT ![w] =
             IF p = "installed"
             THEN [@ EXCEPT !.path = p, !.pc = "finalizeExtensionActivation"]
             ELSE [@ EXCEPT !.path = p, !.pc = "installation", !.at = 1]]
    /\ UNCHANGED <<hostVars, diskVars, sessionVars, historyVars, eventVars, panelVars>>

\* What the operation of stage s does to the files, ok telling whether it resolves.
WindowStageFiles(s, ok) ==
    CASE s = "makeBinariesExecutable" ->
            /\ executable' \in IF platform = "win32" THEN {executable}
                               ELSE {executable, executable \cup {OpenDebugAD7}}
            /\ UNCHANGED <<lockFile, packageJson, debugConfigFile>>
      [] s = "makeOfflineBinariesExecutable" ->
            /\ \E granted \in SUBSET OfflineBinaries(GetPlatformInformation(arch, platform)) :
                  executable' = IF platform = "win32" THEN executable
                                ELSE executable \cup granted
            /\ UNCHANGED <<lockFile, packageJson, debugConfigFile>>
      [] s = "removeUnnecessaryFile" ->
            /\ debugConfigFile' \in IF platform # "win32" /\ debugConfigFile = "present"
                                    THEN {"present", "unused"} ELSE {debugConfigFile}
            /\ UNCHANGED <<lockFile, packageJson, executable>>
      [] s = "rewriteManifest" ->
            /\ (packageJson = TruncatedManifest) => ~ok
            /\ packageJson' \in IF packageJson = TruncatedManifest THEN {packageJson}
                                ELSE writeFileText(packageJson, RewrittenManifest(packageJson), ok)
            /\ UNCHANGED <<lockFile, debugConfigFile, executable>>
      [] s = "touchInstallLockFile" ->
            /\ lockFile' = TouchedLockFile(lockFile, ok)
            /\ UNCHANGED <<packageJson, debugConfigFile, executable>>
      [] OTHER -> UNCHANGED diskVars

\* One stage of onlineInstallation / offlineInstallation of window w.
WindowStage(w) ==
    /\ windows[w].pc = "installation"
    /\ LET s == StagesOf(windows[w].path)[windows[w].at]
       IN \E ok \in BOOLEAN :
             /\ (s \notin RejectingStages) => ok
             /\ WindowStageFiles(s, ok)
             /\ windows' = [windows EXCEPT ![w] =
                   IF ~ok THEN [@ EXCEPT !.pc = "catch", !.failedAt = s]
                   ELSE IF s = "postInstall"
                        THEN [@ EXCEPT !.pc = "finalizeExtensionActivation"]
                        ELSE [@ EXCEPT !.at = @ + 1,
                                       !.lockWrites = IF s = "touchInstallLockFile"
                                                      THEN @ + 1 ELSE @]]
    /\ UNCHANGED <<hostVars, sessionVars, historyVars, eventVars, panelVars>>

\* finalizeExtensionActivation of window w.
WindowFinalize(w) ==
    /\ windows[w].pc = "finalizeExtensionActivation"
    /\ \E disabled \in BOOLEAN, e \in BOOLEAN, c \in BOOLEAN, ok \in BOOLEAN :
          LET rejects == /\ ~disabled
                         /\ \/ packageJson = TruncatedManifest
                            \/ WritePackageJson(packageJson, insiders, e, c) /\ ~ok
          IN /\ packageJson' \in
                   IF disabled \/ packageJson = TruncatedManifest
                      \/ ~WritePackageJson(packageJson, insiders, e, c)
                   THEN {packageJson}
                   ELSE writeFileText(packageJson,
                                      ABTestedManifest(packageJson, insiders, e, c), ok)
             /\ windows' = [windows EXCEPT ![w] =
                   IF rejects /\ @.path # "installed"
                   THEN [@ EXCEPT !.pc = "catch", !.failedAt = "postInstall"]
                   ELSE [@ EXCEPT !.pc = "done"]]
    /\ UNCHANGED <<hostVars, lockFile, debugConfigFile, executable, sessionVars, historyVars, eventVars, panelVars>>

\* The catch block of processRuntimeDependencies of window w: activate returns.
WindowCatch(w) ==
    /\ windows[w].pc = "catch"
    /\ windows' = [windows EXCEPT ![w].pc = "done"]
    /\ UNCHANGED <<hostVars, diskVars, sessionVars, historyVars, eventVars, panelVars>>

WindowStep(w) ==
    \/ WindowActivate(w)
    \/ WindowProcessRuntimeDependencies(w)
    \/ WindowStage(w)
    \/ WindowFinalize(w)
    \/ WindowCatch(w)

WindowsNext == \E w \in Windows : WindowStep(w)

WindowsSpec == Init /\ [][WindowsNext]_vars

-----------------------------------------------------------------------------
(* The SettingsPanel of the configuration UI *)

\* The configurations createOrShow is given and the names the webview sends.
ConfigNames == {"Linux", "Win32"}
Configurations == {[name |-> n] : n \in ConfigNames}

\* Compiler paths, as sequences of characters.
KnownCompilerPaths ==
    { <<"c", "/", "g">>, <<"c", "\\", "g">>, <<"g">>, <<"/", "\\">> }

\* The knownCompilers argument: none, or the default compilers for cpp and c.
KnownCompilerLists ==
    {<<>>} \cup {<<a>> : a \in KnownCompilerPaths}
           \cup {<<a, b>> : a \in KnownCompilerPaths, b \in KnownCompilerPaths}

PathSeparators == {"Forward Slash", "Back Slash"}

\* path.replace(/\\/g, '/') and path.replace(/\//g, '\\')
NormalizePath(compilerPath, pathSeparator) ==
    [i \in DOMAIN compilerPath |->
        IF pathSeparator = "Forward Slash"
        THEN IF compilerPath[i] = "\\" THEN "/" ELSE compilerPath[i]
        ELSE IF compilerPath[i] = "/" THEN "\\" ELSE compilerPath[i]]

\* if (this.compilerPaths.indexOf(path) === -1) { this.compilerPaths.push(path); }
PushCompilerPath_Always(paths, compilerPath) == Append(paths, compilerPath)

PushCompilerPath(paths, compilerPath) ==
    IF \E i \in DOMAIN paths : paths[i] = compilerPath THEN paths ELSE Append(paths, compilerPath)

\* The loop of setKnownCompilers over knownCompilers.
RECURSIVE AddKnownCompilers(_, _, _)
AddKnownCompilers(paths, knownCompilers, pathSeparator) ==
    IF knownCompilers = <<>>
    THEN paths
    ELSE AddKnownCompilers(
             PushCompilerPath(paths, NormalizePath(Head(knownCompilers), pathSeparator)),
             Tail(knownCompilers), pathSeparator)

PanelFrame == UNCHANGED <<hostVars, diskVars, sessionVars, historyVars, eventVars, windows>>

SetKnownCompilers ==
    /\ disposeOutcome = "none"
    /\ \E knownCompilers \in KnownCompilerLists, pathSeparator \in PathSeparators :
          compilerPaths' = AddKnownCompilers(compilerPaths, knownCompilers, pathSeparator)
    /\ UNCHANGED <<telemetry, configUILogged, emittersDisposed, configValues, panel,
                   disposablesPanel, panelsCreated, livePanels, listeners, webview,
                   disposeOutcome>>
    /\ PanelFrame

\* createOrShow with this.panel set: this.panel.reveal(column, false).
RevealPanel ==
    /\ webview' = [webview EXCEPT !.revealed = TRUE]
    /\ UNCHANGED <<configValues, panel, disposablesPanel, panelsCreated, livePanels, listeners>>

\* createOrShow from createWebviewPanel on.  getHtml reads ui/settings.html with
\* readFileSync, which throws when the file cannot be read: the panel and its
\* subscriptions are there by then, the html and the configuration are not.
CreatePanel(activeConfiguration, htmlRead) ==
    /\ panelsCreated < MaxPanels
    /\ panelsCreated' = panelsCreated + 1
    /\ panel' = panelsCreated + 1
    /\ livePanels' = livePanels \cup {panelsCreated + 1}
    /\ disposablesPanel' = panelsCreated + 1
    /\ listeners' = listeners \cup {panelsCreated + 1}
    /\ IF htmlRead
       THEN /\ configValues' = activeConfiguration
            /\ webview' = [html |-> TRUE, config |-> activeConfiguration.name, revealed |-> FALSE]
       ELSE /\ webview' = BlankWebview
            /\ UNCHANGED configValues

CreateOrShow_AlwaysCreates ==
    /\ disposeOutcome = "none"
    /\ \E activeConfiguration \in Configurations, htmlRead \in BOOLEAN :
          CreatePanel(activeConfiguration, htmlRead)
    /\ UNCHANGED <<telemetry, configUILogged, emittersDisposed, compilerPaths, disposeOutcome>>
    /\ PanelFrame

CreateOrShow ==
    /\ disposeOutcome = "none"
    /\ \E activeConfiguration \in Configurations, htmlRead \in BOOLEAN :
          IF panel # 0
          THEN RevealPanel
          ELSE CreatePanel(activeConfiguration, htmlRead)
    /\ UNCHANGED <<telemetry, configUILogged, emittersDisposed, compilerPaths, disposeOutcome>>
    /\ PanelFrame

\* The webview panel p is disposed: its onDidDispose subscription, when it is
\* registered, runs onPanelDisposed.
PanelDisposed ==
    /\ disposeOutcome = "none"
    /\ \E p \in livePanels :
          IF p \in listeners /\ disposablesPanel # 0
          THEN /\ livePanels' = livePanels \ {p, disposablesPanel}
               /\ listeners' = listeners \ {disposablesPanel}
               /\ panel' = 0
               /\ webview' = BlankWebview
          ELSE /\ livePanels' = livePanels \ {p}
               /\ UNCHANGED <<listeners, panel, webview>>
    /\ UNCHANGED <<telemetry, configUILogged, emittersDisposed, configValues, compilerPaths,
                   disposablesPanel, panelsCreated, disposeOutcome>>
    /\ PanelFrame

\* The webview of this.panel sends { command: 'change', key: configName, value }.
OnMessageReceived ==
    /\ disposeOutcome = "none"
    /\ panel # 0 /\ panel \in livePanels /\ panel \in listeners
    /\ \E value \in ConfigNames : configValues' = [configValues EXCEPT !.name = value]
    /\ telemetry' = TRUE
    /\ UNCHANGED <<configUILogged, emittersDisposed, compilerPaths, panel, disposablesPanel,
                   panelsCreated, livePanels, listeners, webview, disposeOutcome>>
    /\ PanelFrame

\* dispose(): this.panel.dispose() is a TypeError when this.panel is undefined,
\* and the statements after it do not run.
Dispose ==
    /\ disposeOutcome = "none"
    /\ configUILogged' = telemetry
    /\ IF panel = 0
       THEN /\ disposeOutcome' = "threw"
            /\ UNCHANGED <<emittersDisposed, panel, livePanels, listeners, webview>>
       ELSE /\ disposeOutcome' = "completed"
            /\ emittersDisposed' = TRUE
            /\ livePanels' = livePanels \ {panel, disposablesPanel}
            /\ listeners' = listeners \ {disposablesPanel}
            /\ IF panel \in listeners /\ disposablesPanel # 0
               THEN panel' = 0 /\ webview' = BlankWebview
               ELSE UNCHANGED <<panel, webview>>
    /\ UNCHANGED <<telemetry, configValues, compilerPaths, disposablesPanel, panelsCreated>>
    /\ PanelFrame

PanelNext ==
    \/ CreateOrShow
    \/ PanelDisposed
    \/ OnMessageReceived
    \/ SetKnownCompilers
    \/ Dispose

\* One SettingsPanel, on one host.
PanelInit ==
    /\ Init
    /\ arch = "x64" /\ platform = "linux" /\ ~alpineRelease /\ ~insiders /\ ~offlineVsix

PanelSpec == PanelInit /\ [][PanelNext]_vars

----------------------------------------------------------------------------
(* Vocabulary of the properties *)

\* The stages of a complete online / offline installation, in the order of the
\* setInstallationStage calls.
Entered(s) == \E k \in DOMAIN stagesEntered : stagesEntered[k] = s

Done == pc = "done"

Installing == path \in {"online", "offline"}

\* The session ended in Completed / Failed.
Completed == Done /\ result = "cppTools" /\ finalizeReached /\ failedAt = "none"
Failed == Done /\ Installing /\ failedAt # "none"

\* The host activate refuses.
UnsupportedHost == (arch \notin {"ia32", "x64"}) \/ (platform = "linux" /\ alpineRelease)

\* Every selected package was downloaded and installed in this session.
PackagesCompleted ==
    /\ downloaded = SelectedPackages(GetPlatformInformation(arch, platform))
    /\ installed = downloaded

\* The lock file was created by this session.
LockSetByRun == lockFile /\ ~startLock

----------------------------------------------------------------------------
(* C1 *)

----------------------------------------------------------------------------
(* C2 *)

\* C2, as stated: at the end of any run the lock marker has been set by that run if
\* and only if every selected package completed download and installation without
\* error in that run.
C2_LockIffPackagesCompleted ==
    Done => (LockSetByRun <=> PackagesCompleted)

\* C2, amended: at the end of any run the lock marker has been set by that run if and
\* only if every selected package completed download and installation without error
\* and every later stage up to and including touchInstallLockFile also completed
\* without error in that run; so the marker is set only if every selected package
\* completed.
C2_LockIffPackagesAndManifestCompleted ==
    /\ LockSetByRun => (path = "online" /\ PackagesCompleted)
    /\ Done => (LockSetByRun <=>
                   /\ PackagesCompleted
                   /\ Entered("touchInstallLockFile")
                   /\ failedAt # "touchInstallLockFile")

\* C2 witness: a finished run that installed every selected package and set the marker.
C2_Witness ==
    /\ Done /\ PackagesCompleted /\ LockSetByRun /\ Len(installed) = 2

----------------------------------------------------------------------------
(* C3 *)

----------------------------------------------------------------------------
(* C4 *)

\* C4, as stated: at run start the offline path is chosen exactly when the lock marker
\* is absent and the environment signals pre-bundled dependencies (the manifest still
\* holds its single activation trigger); in every other run that needs installation
\* the online path downloads and installs all selected packages before continuing.
C4_OfflineWhenLockAbsent ==
    /\ (path # "none") =>
          ((path = "offline") <=> (~startLock /\ Len(loadedPackageJson.activationEvents) = 1))
    /\ (path = "online" /\ Entered("makeBinariesExecutable")) => PackagesCompleted

\* C4, amended: at run start the offline path is chosen exactly when the lock marker
\* is present and the manifest still holds its single activation trigger; the
\* online path is chosen exactly when the lock marker is absent, and it downloads and
\* installs all selected packages before it continues with makeBinariesExecutable.
C4_OfflineWhenLockPresentAndWildcard ==
    /\ (path # "none") =>
          /\ (path = "offline") <=> (startLock /\ Len(loadedPackageJson.activationEvents) = 1)
          /\ (path = "online") <=> ~startLock
          /\ (path = "installed") <=> (startLock /\ Len(loadedPackageJson.activationEvents) # 1)
    /\ (path = "online" /\ Entered("makeBinariesExecutable")) => PackagesCompleted
    /\ (path = "offline") => (downloaded = <<>> /\ installed = <<>>)

\* C4 witness: an offline run, started with the lock marker present.
C4_Witness ==
    /\ path = "offline" /\ startLock /\ Entered("makeOfflineBinariesExecutable")

----------------------------------------------------------------------------
(* C5 *)

\* C5: on a host whose architecture is neither ia32 nor x64, or on Linux with the
\* Alpine release file, activate shows an error message and returns before the
\* pipeline starts: no stage is entered, nothing is downloaded or installed, the
\* manifest and the lock marker are untouched, no acquisition telemetry is emitted.
C5_UnsupportedHostAborts ==
    (UnsupportedHost /\ run > 0) =>
        /\ pc = "done"
        /\ result = "NullCppTools"
        /\ Len(messages) = 1
        /\ messages[1] \in {"Architecture arm is not supported. ",
                            "Alpine containers are not supported. "}
        /\ path = "none"
        /\ stagesEntered = <<>>
        /\ installationInformation = FreshInstallationInformation
        /\ downloaded = <<>> /\ installed = <<>>
        /\ <<lockFile, packageJson, executable>> = startDisk
        /\ packageJson = FreshPackageJson
        /\ telemetryLog = <<>>
        /\ ~finalizeReached

\* C5 witness: an activation on Alpine Linux with a supported architecture.
C5_Witness ==
    /\ run > 0 /\ arch = "x64" /\ platform = "linux" /\ alpineRelease /\ pc = "done"

----------------------------------------------------------------------------
(* C6 *)

\* C6: in an online run, when downloadPackages or installPackages fails for a package
\* the run halts as failed at that stage: no later stage is entered, the lock marker
\* is not created, and the telemetry emitted has success=false and its 'stage'
\* property equal to the stage that was current when the failure occurred.
C6_PackageFailureHaltsRun ==
    (path = "online" /\ failedAt \in {"downloadPackages", "installPackages"}) =>
        /\ pc \in {"catch", "done"}
        /\ stagesEntered[Len(stagesEntered)] = failedAt
        /\ \A s \in {"makeBinariesExecutable", "removeUnnecessaryFile", "rewriteManifest",
                     "touchInstallLockFile", "postInstall"} : ~Entered(s)
        /\ ~lockFile /\ lockWrites = 0
        /\ packageJson = startDisk[2]
        /\ ~finalizeReached /\ ~languageServerActivated
        /\ (pc = "catch") => (telemetryLog = <<>>)
        /\ Done =>
              /\ Len(telemetryLog) = 1
              /\ telemetryLog[1]["success"] = "false"
              /\ "stage" \in DOMAIN telemetryLog[1]
              /\ telemetryLog[1]["stage"] = failedAt
              /\ telemetryLog[1]["error.packageName"] =
                    runtimeDependencies[error.pkg].description

\* C6 witness: the second selected package fails to install after the first was installed.
C6_Witness ==
    /\ Done /\ path = "online" /\ failedAt = "installPackages" /\ Len(installed) = 1

----------------------------------------------------------------------------
(* C7 *)

\* C7: every run that ends in failure, on the online or the offline path and at
\* whatever stage, is recorded through telemetry before the run exits, the recorded
\* properties mark the run as failed (success=false) and attribute it to the failing
\* stage; no failed run is reported with success=true.
C7_FailedRunRecordedAsFailed ==
    Failed =>
        /\ telemetryLog # <<>>
        /\ \A k \in DOMAIN telemetryLog : telemetryLog[k]["success"] = "false"
        /\ "stage" \in DOMAIN telemetryLog[Len(telemetryLog)]
        /\ telemetryLog[Len(telemetryLog)]["stage"] = failedAt

----------------------------------------------------------------------------
(* C8 *)

\* C8: in every run that enters the online or the offline installation path the
\* acquisition event is logged exactly once by the time the run ends, never zero
\* times and never twice, whether the run succeeds or fails at any stage, a failure
\* inside postInstall after telemetry was sent included.
C8_TelemetryExactlyOnce ==
    /\ Len(telemetryLog) <= 1
    /\ (Done /\ Installing) => (Len(telemetryLog) = 1)

----------------------------------------------------------------------------
(* C9 *)

\* C9: after a run that reached Completed (lock marker present, manifest rewritten),
\* any later run against the same lock marker enters no download stage and no install
\* stage, downloads and installs nothing, and goes straight to activation.
C9_CompletedRunIsNotRepeated ==
    completedBefore =>
        /\ lockFile /\ startLock
        /\ startDisk[2].activationEvents = ExplicitActivationEvents
        /\ path \in {"none", "installed"}
        /\ stagesEntered = <<>>
        /\ installationInformation.stage = "none"
        /\ downloaded = <<>> /\ installed = <<>>
        /\ telemetryLog = <<>>
        /\ Done => finalizeReached

\* C9 witness: a run after a Completed run that went straight to activation.
C9_Witness ==
    /\ completedBefore /\ Done /\ path = "installed" /\ finalizeReached /\ result = "cppTools"

----------------------------------------------------------------------------
(* C10 *)

\* C10: an online run in which no stage operation fails eventually reaches Completed:
\* the run ends, it has then passed through every stage up to postInstall, the lock
\* marker exists, telemetry is recorded with success=true, and the language service
\* is activated.
C10_OnlineRunWithoutFailureCompletes ==
    /\ (path = "online" /\ ~Done) ~> Done
    /\ [](Done /\ path = "online" /\ failedAt = "none" =>
            /\ Completed
            /\ stagesEntered = OnlineStages
            /\ PackagesCompleted
            /\ lockFile /\ lockWrites = 1
            /\ packageJson.activationEvents = ExplicitActivationEvents
            /\ Len(telemetryLog) = 1
            /\ telemetryLog[1]["success"] = "true"
            /\ telemetryLog[1]["type"] = "online"
            /\ (intelliSenseEngine # "Disabled" => languageServerActivated))

\* C10 witness: an online run that ended without a failure.
C10_Witness ==
    /\ Done /\ path = "online" /\ failedAt = "none" /\ lockFile
    /\ languageServerActivated /\ Len(telemetryLog) = 1

----------------------------------------------------------------------------
(* C11 *)

\* The stage whose operation the session is awaiting, "none" between stages.
AwaitedStage ==
    CASE pc \in {"onlineInstallation", "offlineInstallation"} -> "getPlatformInfo"
      [] pc = "DownloadPackages" /\ Len(downloaded) <
             Len(SelectedPackages(GetPlatformInformation(arch, platform))) -> "downloadPackages"
      [] pc = "InstallPackages" /\ Len(installed) < Len(downloaded) -> "installPackages"
      [] pc \in {"makeBinariesExecutable", "makeOfflineBinariesExecutable",
                 "removeUnnecessaryFile", "rewriteManifest", "touchInstallLockFile"} -> pc
      [] pc = "finalizeExtensionActivation" /\ Installing
            /\ intelliSenseEngine # "Disabled" -> "postInstall"
      [] OTHER -> "none"

\* The awaited operation can reject: the next step of the session can be the one
\* that enters the catch block of processRuntimeDependencies.
CanFail == ENABLED (RunStep /\ pc' = "catch")

\* The stages entered so far are the first stages of the path's sequence, in order,
\* and the current stage is the last of them.
StagesInOrder ==
    /\ Len(stagesEntered) <= Len(StagesOf(path))
    /\ stagesEntered = SubSeq(StagesOf(path), 1, Len(stagesEntered))
    /\ installationInformation.stage =
          IF stagesEntered = <<>> THEN FreshInstallationInformation.stage
          ELSE stagesEntered[Len(stagesEntered)]
    /\ failedAt # "none" => (stagesEntered # <<>> /\ failedAt = stagesEntered[Len(stagesEntered)])

\* A step of a session leaves the stages alone or enters the next stage of the
\* sequence, and enters it only when no operation has failed.
StageMovesForward ==
    (run' = run) =>
        \/ stagesEntered' = stagesEntered
        \/ /\ failedAt = "none"
           /\ Len(stagesEntered) < Len(StagesOf(path'))
           /\ stagesEntered' = Append(stagesEntered, StagesOf(path')[Len(stagesEntered) + 1])

\* On the online path a file is made executable only after every selected package
\* was downloaded and installed.
ExecutableAfterInstall ==
    (path = "online" /\ executable # startDisk[3]) =>
        (PackagesCompleted /\ Entered("makeBinariesExecutable"))

----------------------------------------------------------------------------
(* C12 *)

\* allowExecution reported a refused chmod in this session.
ChmodRefused ==
    \E k \in DOMAIN outputChannel :
        \E f \in {OpenDebugAD7} \cup UNION {runtimeDependencies[i].binaries :
                                              i \in DOMAIN runtimeDependencies} :
            outputChannel[k] = ChmodWarning(f)

----------------------------------------------------------------------------
(* C13 *)

\* The complete manifests the operation at the current position can write.
NewManifests ==
    CASE pc = "rewriteManifest" -> {RewrittenManifest(packageJson)}
      [] pc = "finalizeExtensionActivation" ->
            {ABTestedManifest(packageJson, insiders, e, c) : e \in BOOLEAN, c \in BOOLEAN}
      [] OTHER -> {}

\* C13: a step of rewriteManifest or of the default-value update of
\* finalizeExtensionActivation leaves the persisted manifest as it was or replaces it
\* by the complete new content, and a step that rejects leaves it as it was; no
\* partially written manifest is reachable.
C13_ManifestWriteAllOrNothing ==
    [][/\ packageJson' \in {packageJson} \cup NewManifests
       /\ (failedAt' # failedAt /\ failedAt' # "none") => packageJson' = packageJson]_vars

----------------------------------------------------------------------------
(* C14 *)

\* C14: the lock file is created only while the manifest on disk holds the explicit
\* activation events, written earlier in the same online installation; a lock file
\* that an online installation created never stands next to a manifest that holds the
\* single wildcard event; and a session that follows an online installation does not
\* take the offline installation.
C14_LockOnlyAfterManifestRewritten ==
    /\ [](/\ LockSetByRun =>
               /\ path = "online"
               /\ Entered("rewriteManifest") /\ failedAt # "rewriteManifest"
               /\ packageJson.activationEvents # WildcardActivationEvents
          /\ (~offlineVsix /\ lockFile) => packageJson.activationEvents # WildcardActivationEvents
          /\ ~offlineVsix => path # "offline")
    /\ [][(lockFile' /\ ~lockFile) =>
             /\ packageJson.activationEvents = ExplicitActivationEvents
             /\ packageJson' = packageJson]_vars

\* C14 witness: the session after an online installation that created the lock file
\* finds it and goes to finalizeExtensionActivation.
C14_Witness ==
    /\ ~offlineVsix /\ startLock /\ run = 2 /\ path = "installed"
    /\ startDisk[2].activationEvents = ExplicitActivationEvents

----------------------------------------------------------------------------
(* C15 *)

\* C15: no step removes the lock file: once it exists it exists in every later state,
\* whatever sessions follow (completed, failed, online, offline, already installed).
C15_LockFileIsNeverRemoved ==
    [][lockFile => lockFile']_vars

\* C15 witness: the lock file an online installation created is still there in the
\* session after it, although that installation failed in postInstall.
C15_Witness ==
    /\ ~offlineVsix /\ lockFile /\ startLock /\ run >= 2 /\ ~completedBefore /\ Done

----------------------------------------------------------------------------
(* C16 *)

\* Window w is awaiting the download or the extraction of the packages.
DownloadsOrInstalls(w) ==
    /\ windows[w].pc = "installation" /\ windows[w].path = "online"
    /\ StagesOf("online")[windows[w].at] \in {"downloadPackages", "installPackages"}

\* C16: two windows on the same lock file never both execute the download and install
\* stages: the second one finds the installation done or runs after the first has
\* finished; and only one of them writes the lock file.
C16_InstallationsAreSerialized ==
    /\ \A v \in Windows, w \in Windows :
          (v # w) => ~(DownloadsOrInstalls(v) /\ DownloadsOrInstalls(w))
    /\ Cardinality({w \in Windows : windows[w].lockWrites > 0}) <= 1

----------------------------------------------------------------------------
(* C17 *)

\* The stored text is what PII removal makes of the words of the error text, or the
\* words held nothing that PII removal would have replaced.
Sanitized(text, words) ==
    \/ text = removePotentialPII(words)
    \/ /\ text = JoinWords(words)
       /\ \A i \in DOMAIN words : words[i] \notin PathLikeWords

\* C17: every error text in the telemetry properties of a logged event
\* (error.message, error.innerError, error.errorCode, error.toString) has passed
\* through PII removal, on either installation path.
C17_TelemetryErrorTextIsSanitized ==
    \A k \in DOMAIN telemetryLog :
        LET props == telemetryLog[k]
        IN /\ "error.message" \in DOMAIN props =>
                 Sanitized(props["error.message"], error.message)
           /\ "error.innerError" \in DOMAIN props =>
                 Sanitized(props["error.innerError"], error.innerError)
           /\ "error.errorCode" \in DOMAIN props =>
                 Sanitized(props["error.errorCode"], error.errorCode)
           /\ "error.toString" \in DOMAIN props =>
                 Sanitized(props["error.toString"], error.text)

----------------------------------------------------------------------------
(* C18 *)

\* The binaries of the catalog packages whose platforms hold the detected operating
\* system and whose architectures are unspecified or hold the detected architecture.
BinariesForHost ==
    LET info == GetPlatformInformation(arch, platform)
    IN {b \in UNION {runtimeDependencies[i].binaries : i \in DOMAIN runtimeDependencies} :
          \E i \in DOMAIN runtimeDependencies :
             /\ b \in runtimeDependencies[i].binaries
             /\ info.platform \in runtimeDependencies[i].platforms
             /\ (runtimeDependencies[i].hasArchitectures =>
                    info.architecture \in runtimeDependencies[i].architectures)}

\* C18: the step of makeOfflineBinariesExecutable makes executable only binaries of
\* the catalog packages that match the detected operating system and architecture,
\* all of them unless chmod is refused or the host is win32, it takes the permission
\* from no file, and it completes without error, an empty selection included.
C18_OfflineBinariesMadeExecutable ==
    [][(pc = "makeOfflineBinariesExecutable" /\ pc' # pc) =>
          /\ path = "offline"
          /\ pc' = "removeUnnecessaryFile" /\ failedAt' = "none"
          /\ executable \subseteq executable'
          /\ (executable' \ executable) \subseteq BinariesForHost
          /\ (platform # "win32" /\ outputChannel' = outputChannel) =>
                executable' = executable \cup BinariesForHost]_vars

\* C18 witness: on 32-bit linux the offline installation made the x86 binary
\* executable and left the x86_64 binary alone.
C18_Witness ==
    /\ path = "offline" /\ Entered("makeOfflineBinariesExecutable")
    /\ platform = "linux" /\ arch = "ia32"
    /\ "./bin/Microsoft.VSCode.CPP.Extension.linux32" \in executable
    /\ "./bin/Microsoft.VSCode.CPP.Extension.linux" \notin executable

\* The offline installation went past makeOfflineBinariesExecutable on a host for
\* which no catalog package lists a binary.
C18_EmptySelectionCompletes ==
    /\ path = "offline" /\ BinariesForHost = {}
    /\ Entered("removeUnnecessaryFile") /\ failedAt = "none"

----------------------------------------------------------------------------
(* C19 *)

\* fs.rename reported an error to the callback of removeUnnecessaryFile.
RenameFailed ==
    \E k \in DOMAIN outputChannel : outputChannel[k] = "ERROR: fs.rename failed"

\* An awaited operation of the installation rejected: the run is in the catch block
\* or over, the stage is the one of that operation and no stage was entered after it.
RejectionEndsRun ==
    (Installing /\ error # NoError) =>
        /\ failedAt \in RejectingStages \cup {"postInstall"}
        /\ pc \in {"catch", "done"}
        /\ installationInformation.stage = failedAt
        /\ stagesEntered # <<>> /\ stagesEntered[Len(stagesEntered)] = failedAt
        /\ ~Completed

\* C19, as stated: apart from a refused chmod no error is swallowed: an error in the
\* download, the installation, the rename of removeUnnecessaryFile, rewriteManifest,
\* touchInstallLockFile or postInstall ends the run in Failed at that stage, and no
\* later stage is entered.
C19_EveryOtherErrorEndsRun ==
    /\ RejectionEndsRun
    /\ RenameFailed => (failedAt = "removeUnnecessaryFile" /\ ~Entered("rewriteManifest"))

\* C19, amended: apart from a refused chmod and a failed rename in
\* removeUnnecessaryFile no error is swallowed: an error in the download, the
\* installation, rewriteManifest, touchInstallLockFile or postInstall ends the run at
\* that stage and no later stage is entered; a failed rename is written to the output
\* channel and the run goes on to rewriteManifest.
C19_EveryErrorButRenameEndsRun ==
    /\ RejectionEndsRun
    /\ RenameFailed =>
          /\ failedAt # "removeUnnecessaryFile"
          /\ Entered("removeUnnecessaryFile")
          /\ pc # "removeUnnecessaryFile"
          /\ (pc # "rewriteManifest") => Entered("rewriteManifest")

\* C19 witness: a run in which the rename failed and that completed.
C19_Witness ==
    /\ RenameFailed /\ Completed /\ path = "online"
    /\ debugConfigFile = "present"

----------------------------------------------------------------------------
(* C20 *)

\* C20: only packages that were downloaded and verified are installed, in that order;
\* the installPackages stage is entered only when every selected package was
\* downloaded and verified; a run whose download failed installs nothing.
C20_OnlyVerifiedPackagesInstalled ==
    /\ Len(installed) <= Len(downloaded)
    /\ installed = SubSeq(downloaded, 1, Len(installed))
    /\ Entered("installPackages") =>
          downloaded = SelectedPackages(GetPlatformInformation(arch, platform))
    /\ (failedAt = "downloadPackages") => (installed = <<>> /\ ~Entered("installPackages"))
    /\ (path # "online") => (downloaded = <<>> /\ installed = <<>>)

\* C20 witness: the first package was downloaded, the second failed the checksum
\* verification, nothing was installed.
C20_Witness ==
    /\ failedAt = "downloadPackages" /\ Len(downloaded) = 1 /\ installed = <<>>
    /\ error \in DownloadErrors(3) /\ error.message = <<"Checksum", "mismatch">>
    /\ Done

----------------------------------------------------------------------------
(* C21 *)

\* C21: a session that starts with the lock file and a manifest whose activationEvents
\* has one element runs the offline installation; once an offline installation has
\* completed rewriteManifest, every later session runs no installation and goes
\* straight to finalizeExtensionActivation; and if the offline installation of the
\* session before failed before rewriteManifest completed, the session runs the
\* offline installation again, from getPlatformInfo.
C21_OfflineInstallationRepeatedUntilManifestRewritten ==
    (path # "none") =>
        /\ (startLock /\ Len(startDisk[2].activationEvents) = 1) => path = "offline"
        /\ earlier.offlineRewritten =>
              /\ path = "installed"
              /\ stagesEntered = <<>> /\ downloaded = <<>> /\ installed = <<>>
              /\ pc \in {"finalizeExtensionActivation", "done"}
        /\ earlier.offlineFailedEarly =>
              /\ path = "offline"
              /\ pc # "offlineInstallation" =>
                    (stagesEntered # <<>> /\ stagesEntered[1] = "getPlatformInfo")

\* C21 witness: a session after an offline installation that rewrote the manifest went
\* straight to finalizeExtensionActivation.
C21_Witness ==
    /\ run >= 2 /\ offlineVsix /\ earlier.offlineRewritten
    /\ path = "installed" /\ Done

\* The session after an offline installation that failed in rewriteManifest is in its
\* own offline installation.
C21_OfflineInstallationRetried ==
    /\ earlier.offlineFailedEarly /\ path = "offline" /\ Entered("makeBinariesExecutable")

----------------------------------------------------------------------------
(* C22 *)

\* Whatever the A/B test settings, finalizeExtensionActivation decides to write the
\* manifest on disk exactly when the manifest it computed differs from it, the computed
\* manifest has the same activationEvents, and with the same settings nothing is left
\* to write once the computed manifest is on disk.
WritesOnlyChangedDefaults ==
    \A e \in BOOLEAN, c \in BOOLEAN :
        LET new == ABTestedManifest(packageJson, insiders, e, c)
        IN /\ WritePackageJson(packageJson, insiders, e, c) <=> (new # packageJson)
           /\ new.activationEvents = packageJson.activationEvents
           /\ ~WritePackageJson(new, insiders, e, c)

\* A step of finalizeExtensionActivation that changes the manifest had a default to
\* change, and a write that succeeds leaves the activationEvents as they were.
FinalizeWritesComputedManifest ==
    (pc = "finalizeExtensionActivation" /\ packageJson' # packageJson) =>
        \E e \in BOOLEAN, c \in BOOLEAN :
            /\ WritePackageJson(packageJson, insiders, e, c)
            /\ ABTestedManifest(packageJson, insiders, e, c) # packageJson
            /\ \/ packageJson' = TruncatedManifest
               \/ /\ packageJson' = ABTestedManifest(packageJson, insiders, e, c)
                  /\ packageJson'.activationEvents = packageJson.activationEvents

\* C22: finalizeExtensionActivation writes the manifest only when the default the A/B
\* test settings determine for intelliSenseEngine (for updateChannel on an insiders
\* install) or for enhancedColorization differs from the stored one; with unchanged
\* settings a second activation writes nothing; the update leaves activationEvents alone.
C22_ManifestWrittenOnlyWhenDefaultsChange ==
    /\ []WritesOnlyChangedDefaults
    /\ [][FinalizeWritesComputedManifest]_vars

\* C22 witness: a later session activated the language server and left alone the
\* manifest whose colorization default an earlier session had changed.
C22_Witness ==
    /\ run >= 2 /\ path = "installed" /\ Done /\ languageServerActivated
    /\ packageJson = startDisk[2]
    /\ packageJson.enhancedColorizationDefault # FreshPackageJson.enhancedColorizationDefault

-----------------------------------------------------------------------------
(* C23 *)

\* C23: deactivate calls LanguageServer.deactivate only in a session that activated
\* the language server: not after a failed installation, not after the abort on an
\* unsupported host, not when the setting was Disabled at activation.
C23_LanguageServerDeactivatedOnlyWhenActivated ==
    (deactivation = "LanguageServer.deactivate") => languageServerActivated

\* The part of C23 the guard of deactivate does provide: a session that found the
\* setting Disabled returns before LanguageServer.deactivate.
C23_DisabledSessionSkipsLanguageServer ==
    (deactivation # "none" /\ finalizeReached /\ intelliSenseEngine = "Disabled") =>
        deactivation = "returned"

\* The sessions C23 fails on have been deactivated: one whose installation failed
\* and one that stopped at the unsupported host.
C23_DeactivatedAfterFailedInstallation ==
    /\ deactivation # "none" /\ failedAt # "none" /\ ~finalizeReached

C23_DeactivatedAfterUnsupportedAbort ==
    /\ deactivation # "none" /\ path = "none" /\ messages # <<>>

-----------------------------------------------------------------------------
(* C24 *)

\* The intelliSenseEngine setting is Disabled / is not.
Status(setting) == setting = "Disabled"

\* A configuration-change event that prompts for a reload finds the status of the
\* setting different from the status finalizeExtensionActivation found.
PromptOnlyOnStatusChange ==
    (prompts' > prompts) =>
        /\ finalizeReached
        /\ ~reloadMessageShown
        /\ Status(configuration') # Status(intelliSenseEngine)

\* C24: over any sequence of configuration-change events of a session the reload
\* prompt is shown at most once, and only on an event at which the Disabled /
\* not-Disabled status of the setting differs from its status at activation.
C24_ReloadPromptOnceAndOnlyOnStatusChange ==
    /\ [](prompts <= 1)
    /\ [](prompts = 1 <=> reloadMessageShown)
    /\ [][PromptOnlyOnStatusChange]_vars

\* C24 witness: a completed session has prompted, and a later event has put the
\* setting back to its status at activation.
C24_Witness ==
    /\ Completed /\ deactivation = "none"
    /\ prompts = 1 /\ reloadMessageShown
    /\ Status(configuration) = Status(intelliSenseEngine)

\* Both listeners have prompted in some session.
C24_PromptedOnEnable == Completed /\ prompts = 1 /\ configListener = "promptOnEnable"

C24_PromptedOnDisable == Completed /\ prompts = 1 /\ configListener = "promptOnDisable"

-----------------------------------------------------------------------------
(* C25 *)

\* C25: SettingsPanel.dispose completes without error from every reachable state of
\* the panel, also when createOrShow was never called and when the user has closed
\* the panel, and it releases the event emitters and the panel subscriptions.
C25_DisposeCompletesAndReleases ==
    (disposeOutcome # "none") =>
        /\ disposeOutcome = "completed"
        /\ emittersDisposed
        /\ listeners = {}

\* What dispose does provide: with a panel open it completes and releases both; it
\* throws exactly when there is no panel, and then the emitters stay undisposed.
C25_DisposeCompletesWithOpenPanel ==
    /\ (disposeOutcome = "completed") => (emittersDisposed /\ listeners = {} /\ livePanels = {})
    /\ (disposeOutcome = "threw") => (panel = 0 /\ ~emittersDisposed)

\* The two states C25 names have been disposed from.
C25_DisposedBeforeCreateOrShow == disposeOutcome # "none" /\ panelsCreated = 0

C25_DisposedAfterPanelClosed == disposeOutcome # "none" /\ panelsCreated > 0 /\ panel = 0

C25_DisposedWithOpenPanel == disposeOutcome = "completed" /\ panelsCreated > 0

-----------------------------------------------------------------------------
(* C26 *)

\* this.panel is the one live webview panel, if there is one.
OnePanel ==
    /\ Cardinality(livePanels) <= 1
    /\ livePanels = IF panel = 0 THEN {} ELSE {panel}
    /\ listeners = livePanels

\* A step that creates a panel starts without one, registers the listeners of the
\* new panel and, when the html could be read, stores and posts the configuration.
CreatesOnlyWithoutPanel ==
    (panelsCreated' # panelsCreated) =>
        /\ panel = 0 /\ livePanels = {}
        /\ panel' = panelsCreated' /\ panel' \notin 1..panelsCreated
        /\ livePanels' = {panel'} /\ listeners' = {panel'} /\ disposablesPanel' = panel'
        /\ webview'.html => (webview'.config = configValues'.name)

\* A step that reveals the panel leaves the stored configuration and the panel alone.
RevealChangesNothing ==
    (webview'.revealed /\ ~webview.revealed) =>
        /\ panel # 0
        /\ UNCHANGED <<configValues, panel, disposablesPanel, panelsCreated, livePanels,
                       listeners, compilerPaths>>
        /\ webview'.config = webview.config

\* A disposed panel is forgotten, so that createOrShow takes the creating branch.
DisposedPanelForgotten ==
    (livePanels' # livePanels /\ livePanels' = {}) =>
        (panel' = 0 /\ (disposeOutcome' = "none" => ENABLED CreateOrShow \/ panelsCreated = MaxPanels))

\* C26: over any sequence of createOrShow calls and panel-disposed events there is at
\* most one live webview panel; createOrShow creates one only when there is none and
\* otherwise reveals the existing one without changing the stored configuration; after
\* the panel is disposed the next createOrShow creates a fresh panel.
C26_AtMostOneLivePanel ==
    /\ []OnePanel
    /\ [][CreatesOnlyWithoutPanel]_vars
    /\ [][RevealChangesNothing]_vars
    /\ [][DisposedPanelForgotten]_vars

\* C26 witness: the second panel was created after the first was disposed, the webview
\* has changed the configuration, and createOrShow has revealed the panel since.
C26_Witness ==
    /\ panelsCreated = 2 /\ panel = 2 /\ livePanels = {2}
    /\ webview.revealed /\ webview.html
    /\ configValues.name # webview.config

-----------------------------------------------------------------------------
(* C27 *)

NoDuplicates(paths) ==
    \A i \in DOMAIN paths, j \in DOMAIN paths : (i # j) => (paths[i] # paths[j])

IsPrefix(s, t) == Len(s) <= Len(t) /\ SubSeq(t, 1, Len(s)) = s

\* Index of the first element of seq that is x (0 when there is none).
FirstIndex(seq, x) ==
    IF \E i \in DOMAIN seq : seq[i] = x
    THEN CHOOSE i \in DOMAIN seq : seq[i] = x /\ \A j \in 1..(i - 1) : seq[j] # x
    ELSE 0

\* Whatever setKnownCompilers is called with in this state, the list keeps what it has
\* in the order it has, gets exactly the normalized paths it did not have, each once,
\* in the order they first occur in the argument.
AppendsInFirstSeenOrder ==
    \A knownCompilers \in KnownCompilerLists, pathSeparator \in PathSeparators :
        LET old == compilerPaths
            new == AddKnownCompilers(old, knownCompilers, pathSeparator)
            given == [k \in DOMAIN knownCompilers |->
                         NormalizePath(knownCompilers[k], pathSeparator)]
        IN /\ IsPrefix(old, new)
           /\ NoDuplicates(new)
           /\ {new[i] : i \in DOMAIN new} =
                 {old[i] : i \in DOMAIN old} \cup {given[k] : k \in DOMAIN given}
           /\ \A i \in (Len(old) + 1)..Len(new), j \in (Len(old) + 1)..Len(new) :
                 (i < j) => (FirstIndex(given, new[i]) < FirstIndex(given, new[j]))

\* C27: after any sequence of setKnownCompilers calls, with either path separator, the
\* list of known compiler paths holds no path twice and only grows: paths are appended
\* in first-seen order and never removed or reordered.
C27_KnownCompilersUniqueAndAppendOnly ==
    /\ [](NoDuplicates(compilerPaths) /\ AppendsInFirstSeenOrder)
    /\ [][IsPrefix(compilerPaths, compilerPaths')]_vars

\* C27 witness: calls with both separator settings have filled the list with every
\* normalized form of the known paths.
C27_Witness ==
    /\ Len(compilerPaths) = 5
    /\ \E i \in DOMAIN compilerPaths, j \in DOMAIN compilerPaths :
          /\ i < j
          /\ compilerPaths[i] = <<"c", "\\", "g">>
          /\ compilerPaths[j] = <<"c", "/", "g">>

=============================================================================
